---- MODULE Spec2Model ----
(***************************************************************************)
(* A model of the capture-file parser of sillypcap.py: format sniffing     *)
(* (detect_format), the dispatch of parse_file, the classic record reader, *)
(* the library-backed block reader, the scanning block recovery and the    *)
(* generic library reader, with the exception handlers that chain them.    *)
(*                                                                         *)
(* A file is a sequence of bytes (0..255).  A 32-bit word is kept as its   *)
(* four base-256 digits, most significant first, so that the two byte      *)
(* orders are two different conversions; a word is turned into a number    *)
(* (Val) only where the code computes with it (lengths and offsets).       *)
(***************************************************************************)
EXTENDS Integers, Sequences, FiniteSets, TLC

\* ------------------------------------------------------------------ bounds
\* Records in a generated classic capture.
MaxRecs == 2
\* Longest payload of a generated record or block.
MaxPayload == 2
\* Items the library reader yields in one iteration.
MaxLibItems == 2
\* I/O errors the operating system raises during one call.
MaxIoErrors == 1
\* Calls of parse_file on one parser.
MaxCalls == 2

\* ------------------------------------------------------- program constants
\* f.read(4) in detect_format and _parse_with_dpkt
MagicLen == 4
\* f.read(24), the global header of the classic format
GlobalHeaderLen == 24
\* f.read(16), the record header of the classic format
RecordHeaderLen == 16
\* pos + 16 <= len(data): the bytes the scan needs at a block offset
ScanHeaderLen == 16
\* block_type == 0x00000006
EpbType == 6
\* block_len >= 32
EpbMinLen == 32

\* ------------------------------------------------------------ byte helpers
Min(a, b) == IF a < b THEN a ELSE b

Max(a, b) == IF a > b THEN a ELSE b

Reverse(s) == [i \in 1..Len(s) |-> s[Len(s) + 1 - i]]

\* data[a:b] of Python, 0-based, clipped to the buffer like a slice is.
Slice(s, a, b) == SubSeq(s, Min(a, Len(s)) + 1, Min(b, Len(s)))

Zeros(n) == [i \in 1..n |-> 0]

\* struct.unpack('<I' / '>I', b)[0] as base-256 digits, most significant first.
U32(endian, b) == IF endian = "little" THEN Reverse(b) ELSE b

\* The number a digit string stands for (exact below 2^31).
RECURSIVE Val(_)
Val(w) == IF w = <<>> THEN 0 ELSE Val(SubSeq(w, 1, Len(w) - 1)) * 256 + w[Len(w)]

\* The four digits of n, most significant first: the inverse of Val.
Word(n) == <<(n \div 16777216) % 256, (n \div 65536) % 256, (n \div 256) % 256, n % 256>>

\* struct.pack of one 32-bit (Pack32) or 16-bit (Pack16) field.
Pack32(endian, w) == IF endian = "little" THEN Reverse(w) ELSE w

Pack16(endian, n) == Pack32(endian, <<n \div 256, n % 256>>)

\* ------------------------------------------------------------ magic table
\* PCAP_MAGIC_NUMBERS, in the insertion order the dict is iterated in.
PCAP_MAGIC_NUMBERS ==
  << [magic |-> <<161, 178, 195, 212>>, endian |-> "little", format |-> "classic"],
     [magic |-> <<212, 195, 178, 161>>, endian |-> "big",    format |-> "classic"],
     [magic |-> <<161, 178, 60, 77>>,   endian |-> "little", format |-> "nanosecond"],
     [magic |-> <<77, 60, 178, 161>>,   endian |-> "big",    format |-> "nanosecond"],
     [magic |-> <<10, 13, 13, 10>>,     endian |-> "little", format |-> "pcapng"] >>

\* The pair (None, None) of detect_format.
NoFormat == [endian |-> "None", format |-> "None"]

\* The for loop of detect_format from table entry i on: the first entry that
\* either reading of the prefix equals decides, with that entry's pair.
RECURSIVE MagicLoop(_, _, _)
MagicLoop(magic_le, magic_be, i) ==
  IF i > Len(PCAP_MAGIC_NUMBERS) THEN NoFormat
  ELSE IF magic_le = PCAP_MAGIC_NUMBERS[i].magic
         THEN [endian |-> PCAP_MAGIC_NUMBERS[i].endian, format |-> PCAP_MAGIC_NUMBERS[i].format]
  ELSE IF magic_be = PCAP_MAGIC_NUMBERS[i].magic
         THEN [endian |-> PCAP_MAGIC_NUMBERS[i].endian, format |-> PCAP_MAGIC_NUMBERS[i].format]
  ELSE MagicLoop(magic_le, magic_be, i + 1)

\* A sniffer with the table alone.
detect_format_table_only(bytes) ==
  LET magic_bytes == Slice(bytes, 0, MagicLen) IN
  IF Len(magic_bytes) < MagicLen THEN NoFormat
  ELSE MagicLoop(U32("little", magic_bytes), U32("big", magic_bytes), 1)

\* detect_format on a file that opens and reads without an I/O error.
detect_format(bytes) ==
  LET magic_bytes == Slice(bytes, 0, MagicLen) IN
  IF Len(magic_bytes) < MagicLen THEN NoFormat
  ELSE LET found == MagicLoop(U32("little", magic_bytes), U32("big", magic_bytes), 1) IN
       IF found # NoFormat THEN found
       ELSE IF Slice(magic_bytes, 0, 2) = <<255, 255>>
              THEN [endian |-> "unknown", format |-> "wireless_cap"]
       ELSE NoFormat

\* ------------------------------------------------------------------ frames
\* A payload is the bytes a reader took from the file followed by `pad` zero
\* bytes (packet_data += b'\x00' * missing): the zeros are counted, not
\* stored, because a length field read in the wrong byte order pads by
\* millions of bytes.
Payload(data, pad) == [data |-> data, pad |-> pad]

PayloadLen(p) == Len(p.data) + p.pad

\* The i-th byte (1-based) of a payload.
PayloadByte(p, i) == IF i <= Len(p.data) THEN p.data[i] ELSE 0

\* Equality of the byte strings two payloads stand for.
SameBytes(p, q) ==
  /\ PayloadLen(p) = PayloadLen(q)
  /\ \A i \in 1..Max(Len(p.data), Len(q.data)) :
       i <= PayloadLen(p) => PayloadByte(p, i) = PayloadByte(q, i)

\* A timestamp is the float  Val(whole) + Val(frac) / scale.
Timestamp(whole, frac, scale) == [whole |-> whole, frac |-> frac, scale |-> scale]

\* Values handed to QuantumPacket: bytes or a number.
BytesValue(b) == [t |-> "bytes", b |-> b, n |-> 0]

NumValue(n) == [t |-> "num", b |-> <<>>, n |-> n]

\* str(x).encode('utf-8') of the float x = n.0 for a one-digit n: b"n.0".
StrOfNum(n) == <<48 + n, 46, 48>>

\* QuantumPacket._set_raw_data: bytes are kept, a number becomes its text.
SetRawData(v) == IF v.t = "bytes" THEN Payload(v.b, 0) ELSE Payload(StrOfNum(v.n), 0)

IsDigits(b) == b # <<>> /\ \A i \in 1..Len(b) : b[i] \in 48..57

RECURSIVE Decimal(_)
Decimal(b) == IF b = <<>> THEN 0 ELSE Decimal(SubSeq(b, 1, Len(b) - 1)) * 10 + (b[Len(b)] - 48)

\* float(timestamp) in QuantumPacket.__init__ raises ValueError on bytes that
\* are not the text of a number (exact for the byte values the inputs use:
\* ASCII digits and non-text bytes).
FloatRaises(v) == v.t = "bytes" /\ ~IsDigits(v.b)

FloatOf(v) ==
  IF v.t = "num" THEN Timestamp(Word(v.n), <<>>, "1")
  ELSE Timestamp(Word(Decimal(v.b)), <<>>, "1")

\* QuantumPacket(raw_data, timestamp), tagged with the reader that built it.
QuantumPacket(raw_data, timestamp, by) ==
  [payload |-> raw_data, timestamp |-> timestamp, by |-> by]

\* --------------------------------------------------------- classic reader
\* struct.unpack(fmt, global_header) raises struct.error on a short header.
GlobalHeaderRaises(bytes) == Len(Slice(bytes, 0, GlobalHeaderLen)) < GlobalHeaderLen

\* self.format_info after a successful unpack of the global header.
ClassicFormatInfo(bytes, endian, format_type) ==
  LET fmt == IF endian = "little" THEN "little" ELSE "big"
      h == Slice(bytes, 0, GlobalHeaderLen) IN
  [k \in {"magic", "version", "snaplen", "network", "format", "endian"} |->
     CASE k = "magic"   -> <<"word", U32(fmt, SubSeq(h, 1, 4))>>
       [] k = "version" -> <<"version", <<Val(U32(fmt, SubSeq(h, 5, 6))), Val(U32(fmt, SubSeq(h, 7, 8)))>> >>
       [] k = "snaplen" -> <<"word", U32(fmt, SubSeq(h, 17, 20))>>
       [] k = "network" -> <<"word", U32(fmt, SubSeq(h, 21, 24))>>
       [] k = "format"  -> <<"str", <<format_type>> >>
       [] k = "endian"  -> <<"str", <<endian>> >>]

\* packet_header = f.read(16) at file offset fpos.
PacketHeader(bytes, fpos) == Slice(bytes, fpos, fpos + RecordHeaderLen)

\* len(packet_header) < 16: break
ClassicAtEnd(bytes, fpos) == Len(PacketHeader(bytes, fpos)) < RecordHeaderLen

\* struct.unpack('<IIII' / '>IIII', packet_header)
RecordFields(bytes, fpos, endian) ==
  LET fmt == IF endian = "little" THEN "little" ELSE "big"
      h == PacketHeader(bytes, fpos) IN
  [ts_sec   |-> U32(fmt, SubSeq(h, 1, 4)),
   ts_frac  |-> U32(fmt, SubSeq(h, 5, 8)),
   incl_len |-> Val(U32(fmt, SubSeq(h, 9, 12))),
   orig_len |-> U32(fmt, SubSeq(h, 13, 16))]

\* ts_sec + ts_frac / 1_000_000_000  or  ts_sec + ts_frac / 1_000_000
ClassicTimestamp(fields, format_type) ==
  Timestamp(fields.ts_sec, fields.ts_frac,
            IF format_type = "nanosecond" THEN "1e9" ELSE "1e6")

\* A reader that keeps a short read as it is.
ClassicPayloadUnpadded(bytes, fpos, incl_len) ==
  Payload(Slice(bytes, fpos + RecordHeaderLen, fpos + RecordHeaderLen + incl_len), 0)

\* packet_data = f.read(incl_len), zero-padded when the read is short.
ClassicPayload(bytes, fpos, incl_len) ==
  LET packet_data == Slice(bytes, fpos + RecordHeaderLen, fpos + RecordHeaderLen + incl_len) IN
  IF Len(packet_data) < incl_len
    THEN Payload(packet_data, incl_len - Len(packet_data))
    ELSE Payload(packet_data, 0)

\* The frame one iteration of the record loop appends.
ClassicFrame(bytes, fpos, endian, format_type) ==
  LET fields == RecordFields(bytes, fpos, endian) IN
  QuantumPacket(ClassicPayload(bytes, fpos, fields.incl_len),
                ClassicTimestamp(fields, format_type), "classic")

\* A reader whose payload read leaves the file offset where it was.
ClassicAdvanceHeaderOnly(bytes, fpos, endian) == Min(fpos + RecordHeaderLen, Len(bytes))

\* The file offset after one iteration: both reads stop at end of file.
ClassicAdvance(bytes, fpos, endian) ==
  Min(fpos + RecordHeaderLen + RecordFields(bytes, fpos, endian).incl_len, Len(bytes))

\* The frames the record loop appends from offset fpos on, when no read fails.
RECURSIVE ClassicFrames(_, _, _, _)
ClassicFrames(bytes, fpos, endian, format_type) ==
  IF ClassicAtEnd(bytes, fpos) THEN <<>>
  ELSE <<ClassicFrame(bytes, fpos, endian, format_type)>>
         \o ClassicFrames(bytes, ClassicAdvance(bytes, fpos, endian), endian, format_type)

\* ------------------------------------------------------ scanning recovery
\* pos + 16 <= len(data)
ScanHasHeader(data, pos) == pos + ScanHeaderLen <= Len(data)

\* struct.unpack('<I', data[pos:pos+4])[0]
ScanBlockType(data, pos) == U32("little", Slice(data, pos, pos + 4))

\* struct.unpack('<I', data[pos+4:pos+8])[0]
ScanBlockLen(data, pos) == Val(U32("little", Slice(data, pos + 4, pos + 8)))

\* A scan that takes a zero block length for a block.
ScanStopsNoZeroCheck(data, pos) ==
  \/ ~ScanHasHeader(data, pos)
  \/ ScanBlockLen(data, pos) > Len(data) - pos

\* block_len == 0 or block_len > len(data) - pos: break
ScanStops(data, pos) ==
  \/ ~ScanHasHeader(data, pos)
  \/ ScanBlockLen(data, pos) = 0
  \/ ScanBlockLen(data, pos) > Len(data) - pos

\* block_type == 0x00000006 and block_len >= 32
ScanIsPacketBlock(data, pos) ==
  /\ ScanBlockType(data, pos) = Word(EpbType)
  /\ ScanBlockLen(data, pos) >= EpbMinLen

\* incl_len = struct.unpack('<I', data[pos+12:pos+16])[0]
ScanInclLen(data, pos) == Val(U32("little", Slice(data, pos + 12, pos + 16)))

\* An extraction that slices without the bounds check.
ScanExtractsUnchecked(data, pos) == ScanIsPacketBlock(data, pos)

\* packet_start + incl_len <= len(data), with packet_start = pos + 16
ScanExtracts(data, pos) ==
  /\ ScanIsPacketBlock(data, pos)
  /\ pos + 16 + ScanInclLen(data, pos) <= Len(data)

\* The frame built from the block at pos: the payload is
\* data[packet_start:packet_start+incl_len] and the timestamp is
\* ((ts_high << 32) | ts_low) / 1_000_000 with ts_high = data[pos+8:pos+12]
\* and ts_low = data[pos+12:pos+16].
ScanFrame(data, pos) ==
  QuantumPacket(Payload(Slice(data, pos + 16, pos + 16 + ScanInclLen(data, pos)), 0),
                Timestamp(<<>>,
                          U32("little", Slice(data, pos + 8, pos + 12))
                            \o U32("little", Slice(data, pos + 12, pos + 16)),
                          "1e6"),
                "fallback")

\* An advance without the alignment.
ScanAdvanceUnaligned(data, pos) == pos + ScanBlockLen(data, pos)

\* pos += block_len, then up to the next multiple of 4 when block_len is not one.
ScanAdvance(data, pos) ==
  LET block_len == ScanBlockLen(data, pos) IN
  IF block_len % 4 # 0 THEN pos + block_len + (4 - (block_len % 4)) ELSE pos + block_len

\* --------------------------------------------------------- generated inputs
\* The inputs of a run are files built from a description (`input`), so that
\* a property can speak of the records a file was written from.

\* The first n bytes of the pattern 7, 0, 9, 0, 11, 0, ...
PayloadOf(n) == [i \in 1..n |-> IF i % 2 = 1 THEN 6 + i ELSE 0]

\* One record per payload length.
Records == {[sec |-> n + 1, frac |-> 5 * ((n + 1) % 2), data |-> PayloadOf(n)] : n \in 0..MaxPayload}

RECURSIVE SeqsUpTo(_, _)
SeqsUpTo(S, n) ==
  IF n = 0 THEN {<<>>}
  ELSE LET shorter == SeqsUpTo(S, n - 1) IN
       shorter \cup {Append(q, x) : q \in {r \in shorter : Len(r) = n - 1}, x \in S}

\* The 4 magic bytes a writer of byte order enc puts first.
MagicBytes(enc, kind) ==
  Pack32(enc, IF kind = "nanosecond" THEN <<161, 178, 60, 77>> ELSE <<161, 178, 195, 212>>)

\* The 24-byte global header: magic, version 2.4, thiszone 0, sigfigs 0,
\* snaplen 65535, network 1.
EncodeGlobalHeader(enc, kind) ==
  MagicBytes(enc, kind) \o Pack16(enc, 2) \o Pack16(enc, 4) \o Pack32(enc, Word(0))
    \o Pack32(enc, Word(0)) \o Pack32(enc, Word(65535)) \o Pack32(enc, Word(1))

\* The 16-byte record header: ts_sec, ts_frac, incl_len, orig_len.
EncodeRecordHeader(enc, r) ==
  Pack32(enc, Word(r.sec)) \o Pack32(enc, Word(r.frac))
    \o Pack32(enc, Word(Len(r.data))) \o Pack32(enc, Word(Len(r.data)))

RECURSIVE EncodeRecords(_, _)
EncodeRecords(enc, recs) ==
  IF recs = <<>> THEN <<>>
  ELSE EncodeRecordHeader(enc, Head(recs)) \o Head(recs).data \o EncodeRecords(enc, Tail(recs))

\* The bytes left over after the last record: the start of one more header.
StrayBytes(enc, n) == SubSeq(EncodeRecordHeader(enc, [sec |-> 3, frac |-> 1, data |-> <<9>>]), 1, n)

\* Lengths of a partial record header at the end of a generated file.
StrayLens == {0, 1, 8, 15}

\* Lengths a generated global header is cut to.
HeaderLens == {4, 23, GlobalHeaderLen}

\* A classic capture: global header (its first hdr bytes), the records, the
\* last payload short of cut bytes, then stray bytes.
EncodeClassic(in) ==
  LET whole == EncodeGlobalHeader(in.enc, in.kind) \o EncodeRecords(in.enc, in.recs) IN
  IF in.hdr < GlobalHeaderLen THEN SubSeq(whole, 1, in.hdr)
  ELSE SubSeq(whole, 1, Len(whole) - in.cut) \o StrayBytes(in.enc, in.stray)

\* An Enhanced Packet Block as the block-structured format lays it out:
\* type, total length, interface id, timestamp high, timestamp low, captured
\* length, original length, packet data, padding to 4 bytes, total length.
EncodeEpb(b) ==
  LET padn == (4 - (Len(b.data) % 4)) % 4
      total == EpbMinLen + Len(b.data) + padn IN
  Pack32("little", Word(EpbType)) \o Pack32("little", Word(total))
    \o Pack32("little", Word(b.iface)) \o Pack32("little", Word(b.ts_high))
    \o Pack32("little", Word(b.ts_low)) \o Pack32("little", Word(Len(b.data)))
    \o Pack32("little", Word(Len(b.data))) \o b.data \o Zeros(padn)
    \o Pack32("little", Word(total))

\* A little-endian Section Header Block with no options (28 bytes).
SectionHeaderBlock ==
  <<10, 13, 13, 10>> \o Pack32("little", Word(28)) \o <<77, 60, 43, 26>>
    \o <<1, 0, 0, 0>> \o <<255, 255, 255, 255, 255, 255, 255, 255>>
    \o Pack32("little", Word(28))

\* What precedes the packet block in a generated buffer: nothing, a section
\* header, a block of another type whose length is not a multiple of 4, or
\* bytes that are no block (zeros; three bytes that misalign what follows).
Prefixes ==
  [none |-> <<>>,
   shb |-> SectionHeaderBlock,
   odd |-> Pack32("little", Word(1)) \o Pack32("little", Word(18)) \o Zeros(12),
   zeros |-> Zeros(16),
   shift |-> <<1, 2, 3>>]

PrefixNames == {"none", "shb", "odd", "zeros", "shift"}

\* What follows the packet block: nothing, or bytes that are no block.
Suffixes == {<<>>, <<9, 9, 9, 9, 9>>}

\* The timestamp-high values of the generated blocks; the last is larger than
\* any generated buffer is long.
BlockTsHighs == {0, 1, 200}

Blocks ==
  {[iface |-> 0, ts_high |-> h, ts_low |-> 5, data |-> PayloadOf(n)] :
     h \in BlockTsHighs, n \in 0..MaxPayload}

EncodeBlocks(in) == Prefixes[in.pre] \o EncodeEpb(in.epb) \o in.post

\* Files that are neither: empty, shorter than a magic number, the wireless
\* prefix, an unknown prefix.
RawFiles ==
  {<<>>, <<212>>, <<212, 195, 178>>, <<255, 255, 0, 0>>, <<255, 255, 1, 2, 3, 4, 5, 6>>,
   <<1, 2, 3, 4>>, <<212, 195, 178, 160, 0, 0, 0, 0>>}

NoBlock == [iface |-> 0, ts_high |-> 0, ts_low |-> 0, data |-> <<>>]

InputOf(family, enc, kind, recs, hdr, cut, stray, pre, epb, post, raw) ==
  [family |-> family, enc |-> enc, kind |-> kind, recs |-> recs, hdr |-> hdr, cut |-> cut,
   stray |-> stray, pre |-> pre, epb |-> epb, post |-> post, raw |-> raw]

ClassicInputs ==
  {InputOf("classic", enc, kind, recs, hdr, cut, stray, "none", NoBlock, <<>>, <<>>) :
     enc \in {"little", "big"}, kind \in {"classic", "nanosecond"},
     recs \in SeqsUpTo(Records, MaxRecs), hdr \in HeaderLens,
     cut \in 0..MaxPayload, stray \in StrayLens}

\* A cut header carries no records, a cut payload is the last record's and
\* leaves at least none of it, stray bytes follow whole records only.
WellFormedInput(in) ==
  /\ in.hdr < GlobalHeaderLen => in.recs = <<>> /\ in.cut = 0 /\ in.stray = 0
  /\ in.cut > 0 => in.recs # <<>> /\ in.cut <= Len(in.recs[Len(in.recs)].data) /\ in.stray = 0

BlockInputs ==
  {InputOf("blocks", "little", "pcapng", <<>>, 0, 0, 0, pre, epb, post, <<>>) :
     pre \in PrefixNames, epb \in Blocks, post \in Suffixes}

RawInputs ==
  {InputOf("raw", "little", "none", <<>>, 0, 0, 0, "none", NoBlock, <<>>, raw) : raw \in RawFiles}

Inputs == {in \in ClassicInputs : WellFormedInput(in)} \cup BlockInputs \cup RawInputs

\* The bytes on disk for an input.
FileOf(in) ==
  CASE in.family = "classic" -> EncodeClassic(in)
    [] in.family = "blocks"  -> EncodeBlocks(in)
    [] OTHER                 -> in.raw

\* ------------------------------------------------------ the library reader
\* dpkt is not part of the repository: its readers are an environment that
\* refuses a file whose first bytes are not the magic of the format it reads,
\* and otherwise yields up to MaxLibItems (ts, buf) pairs and may raise at
\* any point.
LibItems == {<<NumValue(1), BytesValue(<<7>>)>>, <<NumValue(2), BytesValue(<<49>>)>>}

\* magic == b'\x0a\x0d\x0d\x0a' in _parse_with_dpkt
IsPcapngMagic(bytes) == Slice(bytes, 0, MagicLen) = <<10, 13, 13, 10>>

\* dpkt.pcap.Reader / dpkt.pcapng.Reader construct on this file at all.
LibraryAccepts(bytes) ==
  \/ IsPcapngMagic(bytes)
  \/ /\ Len(bytes) >= GlobalHeaderLen
     /\ \E enc \in {"little", "big"}, kind \in {"classic", "nanosecond"} :
          Slice(bytes, 0, MagicLen) = MagicBytes(enc, kind)

\* --------------------------------------------------------------- the state
VARIABLES
  file,            \* the bytes of the capture file on disk
  input,           \* what the file was generated from
  DPKT_AVAILABLE,  \* the module flag set by the import of dpkt
  entry,           \* the method the caller invoked
  filename,        \* self.filename ("None" when never given)
  pc,              \* where control is
  endian,          \* the endian argument of _parse_classic_pcap
  format_type,     \* the format_type of parse_file / _parse_classic_pcap
  fpos,            \* the offset of the open file in the classic reader
  pos,             \* the scan offset of the scanning recovery
  packet_count,    \* the local packet_count of the running reader
  reader,          \* items the library reader has yielded so far
  packets,         \* self.packets
  format_info,     \* self.format_info, a dict
  exc,             \* the exception in flight or raised to the caller
  ran,             \* the readers invoked so far, in order
  failures,        \* the readers that raised so far, each with its exception
  ioErrors,        \* I/O errors raised so far in this call
  call             \* the number of the call the parser is in (1 = the first)

vars == <<file, input, DPKT_AVAILABLE, entry, filename, pc, endian, format_type, fpos, pos,
          packet_count, reader, packets, format_info, exc, ran, failures, ioErrors, call>>

\* What no step of a call changes: the file, its description, the flag, the
\* method called, the number of the call.
env == <<file, input, DPKT_AVAILABLE, entry, call>>

\* The empty dict.
EmptyDict == [k \in {} |-> <<>>]

\* d[key] = value on a dict.
DictSet(d, key, value) == [k \in DOMAIN d \cup {key} |-> IF k = key THEN value ELSE d[k]]

Stage(name, e, f) == [stage |-> name, endian |-> e, format_type |-> f]

Entries ==
  {[method |-> "load_pcap", endian |-> "None", format_type |-> "None"],
   [method |-> "parse_file", endian |-> "None", format_type |-> "None"],
   [method |-> "parse_file_unnamed", endian |-> "None", format_type |-> "None"],
   [method |-> "_parse_pcapng_fallback", endian |-> "None", format_type |-> "None"]}
  \cup {[method |-> "_parse_classic_pcap", endian |-> e, format_type |-> f] :
          e \in {"little", "big"}, f \in {"classic", "nanosecond"}}

\* The readers are called on their own with files of their format.
EntryFits(e, in) ==
  CASE e.method = "_parse_classic_pcap"    -> in.family = "classic"
    [] e.method = "_parse_pcapng_fallback" -> in.family = "blocks" \/ in.raw = <<>>
    [] e.method = "parse_file_unnamed"     -> in.raw = <<>>
    [] OTHER                               -> TRUE

\* CognitivePCAPParser.__init__ (and SillyPCAP.__init__), then the call.
InitWith(ins, entries) ==
  /\ input \in ins
  /\ file = FileOf(input)
  /\ DPKT_AVAILABLE \in BOOLEAN
  /\ entry \in {e \in entries : EntryFits(e, input)}
  /\ filename = IF entry.method \in {"parse_file_unnamed", "load_pcap"} THEN "None" ELSE "capture"
  /\ pc = CASE entry.method = "load_pcap" -> "load_pcap"
            [] entry.method = "_parse_classic_pcap" -> "classic"
            [] entry.method = "_parse_pcapng_fallback" -> "fallback"
            [] OTHER -> "parse_file"
  /\ endian = entry.endian
  /\ format_type = entry.format_type
  /\ fpos = 0
  /\ pos = 0
  /\ packet_count = 0
  /\ reader = 0
  /\ packets = <<>>
  /\ format_info = EmptyDict
  /\ exc = "none"
  /\ ran = <<>>
  /\ failures = <<>>
  /\ ioErrors = 0
  /\ call = 1

\* A fresh parser and one call on any of the generated files.
Init == InitWith(Inputs, Entries)

\* raise outside a reader: the exception leaves the entry method.
Raise(e) == pc' = "raised" /\ exc' = e /\ UNCHANGED failures

\* An exception is raised inside the reader `stage`.
Fail(stage, e) == exc' = e /\ failures' = Append(failures, [stage |-> stage, exc |-> e])

\* ------------------------------------------------------------- load_pcap
\* SillyPCAP.load_pcap: a missing file and an empty file are refused, any
\* other goes to parse_file(filename).
LoadPcap ==
  /\ pc = "load_pcap"
  /\ \/ /\ ioErrors < MaxIoErrors
        /\ ioErrors' = ioErrors + 1
        /\ Raise("FileNotFoundError")
        /\ UNCHANGED filename
     \/ /\ Len(file) = 0
        /\ Raise("ValueError: File is empty")
        /\ UNCHANGED <<filename, ioErrors>>
     \/ /\ Len(file) # 0
        /\ pc' = "parse_file"
        /\ filename' = "capture"
        /\ UNCHANGED <<exc, failures, ioErrors>>
  /\ UNCHANGED <<env, endian, format_type, fpos, pos, packet_count, reader, packets,
                 format_info, ran>>

\* ------------------------------------------------------------- parse_file
\* The pair detect_format returns: an I/O error inside it is logged and
\* answered with (None, None).
Sniffed(io_error) == IF io_error THEN NoFormat ELSE detect_format(file)

\* A dispatch that calls the library reader without looking at the flag.
DispatchUnguarded(sniff) ==
  IF sniff.format = "pcapng" THEN "pcapng"
  ELSE IF sniff.format \in {"classic", "nanosecond"} THEN "classic"
  ELSE "dpkt"

\* The branch parse_file takes on the sniffed format_type.
Dispatch(sniff) ==
  IF sniff.format = "pcapng" THEN "pcapng"
  ELSE IF sniff.format \in {"classic", "nanosecond"} THEN "classic"
  ELSE IF DPKT_AVAILABLE THEN "dpkt"
  ELSE "raise"

\* parse_file up to the call of a reader.
ParseFile ==
  /\ pc = "parse_file"
  /\ \/ /\ filename = "None"
        /\ Raise("ValueError: No filename")
        /\ UNCHANGED <<endian, format_type, ioErrors>>
     \/ /\ filename # "None"
        /\ \E io_error \in {b \in BOOLEAN : b => ioErrors < MaxIoErrors} :
             LET sniff == Sniffed(io_error) IN
             /\ ioErrors' = IF io_error THEN ioErrors + 1 ELSE ioErrors
             /\ endian' = sniff.endian
             /\ format_type' = sniff.format
             /\ IF Dispatch(sniff) = "raise"
                  THEN Raise("ValueError: Unknown file format")
                  ELSE pc' = Dispatch(sniff) /\ UNCHANGED <<exc, failures>>
  /\ UNCHANGED <<env, filename, fpos, pos, packet_count, reader, packets, format_info, ran>>

\* ------------------------------------------------- _parse_classic_pcap
\* open, f.read(24), struct.unpack, self.format_info = {...}
ClassicOpen ==
  /\ pc = "classic"
  /\ ran' = Append(ran, Stage("classic", endian, format_type))
  /\ \/ /\ ioErrors < MaxIoErrors
        /\ ioErrors' = ioErrors + 1
        /\ pc' = "classic_except" /\ Fail("classic", "OSError")
        /\ UNCHANGED <<format_info, fpos, packet_count>>
     \/ /\ GlobalHeaderRaises(file)
        /\ pc' = "classic_except" /\ Fail("classic", "struct.error")
        /\ UNCHANGED <<format_info, fpos, packet_count, ioErrors>>
     \/ /\ ~GlobalHeaderRaises(file)
        /\ format_info' = ClassicFormatInfo(file, endian, format_type)
        /\ fpos' = GlobalHeaderLen
        /\ packet_count' = 0
        /\ pc' = "classic_loop"
        /\ UNCHANGED <<exc, failures, ioErrors>>
  /\ UNCHANGED <<env, filename, endian, format_type, pos, reader, packets>>

\* One iteration of the record loop that finds a whole record header.
ClassicRecord ==
  /\ pc = "classic_loop"
  /\ ~ClassicAtEnd(file, fpos)
  /\ packets' = Append(packets, ClassicFrame(file, fpos, endian, format_type))
  /\ fpos' = ClassicAdvance(file, fpos, endian)
  /\ packet_count' = packet_count + 1
  /\ UNCHANGED <<env, filename, pc, endian, format_type, pos, reader, format_info, exc, ran,
                 failures, ioErrors>>

\* A record loop that unpacks whatever it read: a short header is a
\* struct.error.
ClassicEndRaises ==
  /\ pc = "classic_loop"
  /\ ClassicAtEnd(file, fpos)
  /\ pc' = "classic_except" /\ Fail("classic", "struct.error")
  /\ UNCHANGED <<env, filename, endian, format_type, fpos, pos, packet_count, reader, packets,
                 format_info, ran, ioErrors>>

\* The iteration that reads fewer than 16 bytes: break, and the reader returns.
ClassicEnd ==
  /\ pc = "classic_loop"
  /\ ClassicAtEnd(file, fpos)
  /\ pc' = "done"
  /\ UNCHANGED <<env, filename, endian, format_type, fpos, pos, packet_count, reader, packets,
                 format_info, exc, ran, failures, ioErrors>>

\* A read of the record loop raises an I/O error.
ClassicReadFails ==
  /\ pc = "classic_loop"
  /\ ioErrors < MaxIoErrors
  /\ ioErrors' = ioErrors + 1
  /\ pc' = "classic_except" /\ Fail("classic", "OSError")
  /\ UNCHANGED <<env, filename, endian, format_type, fpos, pos, packet_count, reader, packets,
                 format_info, ran>>

\* A handler that never falls back.
ClassicExceptReraises ==
  /\ pc = "classic_except"
  /\ pc' = "raised"
  /\ UNCHANGED <<env, filename, endian, format_type, fpos, pos, packet_count, reader, packets,
                 format_info, exc, ran, failures, ioErrors>>

\* except Exception: fall back to the library reader, or re-raise.
ClassicExcept ==
  /\ pc = "classic_except"
  /\ IF DPKT_AVAILABLE THEN pc' = "dpkt" ELSE pc' = "raised"
  /\ UNCHANGED <<env, filename, endian, format_type, fpos, pos, packet_count, reader, packets,
                 format_info, exc, ran, failures, ioErrors>>

\* ------------------------------------------------------------ _parse_pcapng
\* The interface descriptors the library reader exposes.
LibInterfaces == {<<>>, <<[id |-> 0, snaplen |-> 65535, linktype |-> 1]>>}

\* Without the library: raise.  With it: open, dpkt.pcapng.Reader(f),
\* self.format_info = {'format': 'pcapng', 'interfaces': [...]}.
PcapngOpen ==
  /\ pc = "pcapng"
  /\ \/ /\ ~DPKT_AVAILABLE
        /\ Raise("ValueError: pcapng parsing requires dpkt")
        /\ UNCHANGED <<format_info, packet_count, reader, ran, ioErrors>>
     \/ /\ DPKT_AVAILABLE
        /\ ran' = Append(ran, Stage("pcapng", "None", "None"))
        /\ \/ /\ ioErrors < MaxIoErrors
              /\ ioErrors' = ioErrors + 1
              /\ pc' = "pcapng_except" /\ Fail("pcapng", "OSError")
              /\ UNCHANGED <<format_info, packet_count, reader>>
           \/ /\ pc' = "pcapng_except" /\ Fail("pcapng", "LibraryError")
              /\ UNCHANGED <<format_info, packet_count, reader, ioErrors>>
           \/ /\ LibraryAccepts(file)
              /\ \E interfaces \in LibInterfaces :
                   format_info' = DictSet(DictSet(EmptyDict, "format", <<"str", <<"pcapng">> >>),
                                          "interfaces", <<"list", interfaces>>)
              /\ packet_count' = 0
              /\ reader' = 0
              /\ pc' = "pcapng_iter"
              /\ UNCHANGED <<exc, failures, ioErrors>>
  /\ UNCHANGED <<env, filename, endian, format_type, fpos, pos, packets>>

\* QuantumPacket(buf, ts) of _parse_pcapng, for buf, ts in reader.
PcapngFrame(item) ==
  LET buf == item[1]
      ts == item[2] IN
  QuantumPacket(SetRawData(buf), FloatOf(ts), "pcapng")

\* for buf, ts in reader: the first component of the item is bound to buf and
\* the second to ts; QuantumPacket(buf, ts) raises when float(ts) does.
PcapngItem ==
  /\ pc = "pcapng_iter"
  /\ reader < MaxLibItems
  /\ \E item \in LibItems :
       LET buf == item[1]
           ts == item[2] IN
       /\ reader' = reader + 1
       /\ IF FloatRaises(ts)
            THEN /\ pc' = "pcapng_except" /\ Fail("pcapng", "ValueError: float")
                 /\ UNCHANGED <<packets, packet_count>>
            ELSE /\ packets' = Append(packets, PcapngFrame(item))
                 /\ packet_count' = packet_count + 1
                 /\ UNCHANGED <<pc, exc, failures>>
  /\ UNCHANGED <<env, filename, endian, format_type, fpos, pos, format_info, ran, ioErrors>>

\* The library reader raises while it is iterated.
PcapngLibRaises ==
  /\ pc = "pcapng_iter"
  /\ pc' = "pcapng_except" /\ Fail("pcapng", "LibraryError")
  /\ UNCHANGED <<env, filename, endian, format_type, fpos, pos, packet_count, reader, packets,
                 format_info, ran, ioErrors>>

\* The library reader is exhausted: the reader returns.
PcapngEnd ==
  /\ pc = "pcapng_iter"
  /\ pc' = "done"
  /\ UNCHANGED <<env, filename, endian, format_type, fpos, pos, packet_count, reader, packets,
                 format_info, exc, ran, failures, ioErrors>>

\* except Exception: self._parse_pcapng_fallback()
PcapngExcept ==
  /\ pc = "pcapng_except"
  /\ pc' = "fallback"
  /\ UNCHANGED <<env, filename, endian, format_type, fpos, pos, packet_count, reader, packets,
                 format_info, exc, ran, failures, ioErrors>>

\* --------------------------------------------------- _parse_pcapng_fallback
\* open, data = f.read(), pos = 0, packet_count = 0
FallbackOpen ==
  /\ pc = "fallback"
  /\ ran' = Append(ran, Stage("fallback", "None", "None"))
  /\ \/ /\ ioErrors < MaxIoErrors
        /\ ioErrors' = ioErrors + 1
        /\ pc' = "fallback_except" /\ Fail("fallback", "OSError")
        /\ UNCHANGED <<pos, packet_count>>
     \/ /\ pos' = 0
        /\ packet_count' = 0
        /\ pc' = "fallback_scan"
        /\ UNCHANGED <<exc, failures, ioErrors>>
  /\ UNCHANGED <<env, filename, endian, format_type, fpos, reader, packets, format_info>>

\* while pos < len(data) and neither break is taken
ScanContinues(data, p) == p < Len(data) /\ ~ScanStops(data, p)

\* One iteration of the scan loop that does not break: a frame when the
\* block is a packet block whose payload fits, then the advance.
FallbackBlock ==
  /\ pc = "fallback_scan"
  /\ ScanContinues(file, pos)
  /\ IF ScanExtracts(file, pos)
       THEN /\ packets' = Append(packets, ScanFrame(file, pos))
            /\ packet_count' = packet_count + 1
       ELSE UNCHANGED <<packets, packet_count>>
  /\ pos' = ScanAdvance(file, pos)
  /\ UNCHANGED <<env, filename, pc, endian, format_type, fpos, reader, format_info, exc, ran,
                 failures, ioErrors>>

\* The loop ends: return when a frame was found (which also ends the handler
\* of a failed library attempt), else raise ValueError.
FallbackEnd ==
  /\ pc = "fallback_scan"
  /\ ~ScanContinues(file, pos)
  /\ IF packet_count > 0
       THEN pc' = "done" /\ exc' = "none" /\ UNCHANGED failures
       ELSE pc' = "fallback_except" /\ Fail("fallback", "ValueError: No packets found")
  /\ UNCHANGED <<env, filename, endian, format_type, fpos, pos, packet_count, reader, packets,
                 format_info, ran, ioErrors>>

\* except Exception as e: raise ValueError("Could not parse pcapng file: ...")
FallbackExcept ==
  /\ pc = "fallback_except"
  /\ Raise("ValueError: Could not parse pcapng file")
  /\ UNCHANGED <<env, filename, endian, format_type, fpos, pos, packet_count, reader, packets,
                 format_info, ran, ioErrors>>

\* ---------------------------------------------------------- _parse_with_dpkt
\* Without the library: raise.  With it: open, magic = f.read(4), f.seek(0),
\* the library reader for that magic.
DpktOpen ==
  /\ pc = "dpkt"
  /\ ran' = Append(ran, Stage("dpkt", "None", "None"))
  /\ \/ /\ ~DPKT_AVAILABLE
        /\ Raise("ValueError: dpkt not available")
        /\ UNCHANGED <<packet_count, reader, ioErrors>>
     \/ /\ DPKT_AVAILABLE
        /\ ioErrors < MaxIoErrors
        /\ ioErrors' = ioErrors + 1
        /\ pc' = "raised" /\ Fail("dpkt", "OSError")
        /\ UNCHANGED <<packet_count, reader>>
     \/ /\ DPKT_AVAILABLE
        /\ pc' = "raised" /\ Fail("dpkt", "LibraryError")
        /\ UNCHANGED <<packet_count, reader, ioErrors>>
     \/ /\ DPKT_AVAILABLE
        /\ LibraryAccepts(file)
        /\ packet_count' = 0
        /\ reader' = 0
        /\ pc' = "dpkt_iter"
        /\ UNCHANGED <<exc, failures, ioErrors>>
  /\ UNCHANGED <<env, filename, endian, format_type, fpos, pos, packets, format_info>>

\* QuantumPacket(buf, ts) of _parse_with_dpkt, for ts, buf in reader.
DpktFrame(item) ==
  LET ts == item[1]
      buf == item[2] IN
  QuantumPacket(SetRawData(buf), FloatOf(ts), "dpkt")

\* for ts, buf in reader: QuantumPacket(buf, ts)
DpktItem ==
  /\ pc = "dpkt_iter"
  /\ reader < MaxLibItems
  /\ \E item \in LibItems :
       LET ts == item[1]
           buf == item[2] IN
       /\ reader' = reader + 1
       /\ IF FloatRaises(ts)
            THEN /\ pc' = "raised" /\ Fail("dpkt", "ValueError: float")
                 /\ UNCHANGED <<packets, packet_count>>
            ELSE /\ packets' = Append(packets, DpktFrame(item))
                 /\ packet_count' = packet_count + 1
                 /\ UNCHANGED <<pc, exc, failures>>
  /\ UNCHANGED <<env, filename, endian, format_type, fpos, pos, format_info, ran, ioErrors>>

\* The library reader raises while it is iterated: except ...: raise
DpktLibRaises ==
  /\ pc = "dpkt_iter"
  /\ pc' = "raised" /\ Fail("dpkt", "LibraryError")
  /\ UNCHANGED <<env, filename, endian, format_type, fpos, pos, packet_count, reader, packets,
                 format_info, ran, ioErrors>>

\* The library reader is exhausted: self.format_info['parsed_with'] = 'dpkt';
\* the reader returns, and with it the handler of a failed classic attempt.
DpktEnd ==
  /\ pc = "dpkt_iter"
  /\ format_info' = DictSet(format_info, "parsed_with", <<"str", <<"dpkt">> >>)
  /\ pc' = "done"
  /\ exc' = "none"
  /\ UNCHANGED failures
  /\ UNCHANGED <<env, filename, endian, format_type, fpos, pos, packet_count, reader, packets,
                 ran, ioErrors>>

\* ------------------------------------------------------- the specification
Next ==
  \/ LoadPcap
  \/ ParseFile
  \/ ClassicOpen
  \/ ClassicRecord
  \/ ClassicEnd
  \/ ClassicReadFails
  \/ ClassicExcept
  \/ PcapngOpen
  \/ PcapngItem
  \/ PcapngLibRaises
  \/ PcapngEnd
  \/ PcapngExcept
  \/ FallbackOpen
  \/ FallbackBlock
  \/ FallbackEnd
  \/ FallbackExcept
  \/ DpktOpen
  \/ DpktItem
  \/ DpktLibRaises
  \/ DpktEnd

Spec == Init /\ [][Next]_vars

\* The entry method has returned or raised.
Returned == pc \in {"done", "raised"}

TypeOK ==
  /\ pc \in {"load_pcap", "parse_file", "classic", "classic_loop", "classic_except", "pcapng",
             "pcapng_iter", "pcapng_except", "fallback", "fallback_scan", "fallback_except",
             "dpkt", "dpkt_iter", "done", "raised"}
  /\ fpos \in 0..Len(file)
  /\ pos \in Nat
  /\ packet_count \in 0..Len(packets)
  /\ call \in 1..MaxCalls
  /\ (pc = "raised") = (exc # "none" /\ Returned)

\* ------------------------------------------------------ sniffing alone
\* The byte values of the magic numbers and of the wireless heuristic, and
\* one that is in neither.
SniffBytes == {0, 10, 13, 60, 77, 161, 178, 195, 212, 255}

\* Every file of at most 4 of these bytes: all that detect_format reads.
SniffInputs ==
  {InputOf("raw", "little", "none", <<>>, 0, 0, 0, "none", NoBlock, <<>>, raw) :
     raw \in SeqsUpTo(SniffBytes, MagicLen)}

\* parse_file(filename) on a fresh parser.
SniffEntries == {e \in Entries : e.method = "parse_file"}

InitSniff == InitWith(SniffInputs, SniffEntries)

\* parse_file up to its dispatch on what detect_format answered.
NextSniff == ParseFile

SpecSniff == InitSniff /\ [][NextSniff]_vars

\* ------------------------------------------------- the scan on its own
\* _parse_pcapng_fallback() called on a parser whose file is a generated
\* buffer of blocks.
ScanEntries == {e \in Entries : e.method = "_parse_pcapng_fallback"}

InitScan == InitWith(BlockInputs, ScanEntries)

NextScan == FallbackOpen \/ FallbackBlock \/ FallbackEnd \/ FallbackExcept

\* The scan is one sequential flow of control: a step that can be taken is
\* taken.
SpecScan == InitScan /\ [][NextScan]_vars /\ WF_vars(NextScan)

\* ------------------------------------------------- a parser used again
\* The files of a session of several calls: little-endian classic captures
\* of at most one record, a block-structured file, an unrecognized file.
SessionInputs ==
  {in \in Inputs :
     \/ /\ in.family = "classic" /\ in.enc = "little" /\ in.kind = "classic"
        /\ in.hdr = GlobalHeaderLen /\ Len(in.recs) <= 1 /\ in.cut = 0 /\ in.stray = 0
     \/ /\ in.family = "blocks" /\ in.pre = "shb" /\ in.post = <<>>
        /\ in.epb.ts_high = 0 /\ in.epb.data = <<>>
     \/ in.family = "raw" /\ in.raw = <<1, 2, 3, 4>>}

\* The caller's methods that reach parse_file(filename).
SessionEntries == {e \in Entries : e.method \in {"parse_file", "load_pcap"}}

\* A first call on a fresh parser.
InitSession == InitWith(SessionInputs, SessionEntries)

\* parse_file(filename) is called again on the parser once a call has
\* returned or raised: self.filename = filename, and the call starts with
\* self.packets and self.format_info as the earlier call left them.
ParseAgain ==
  /\ Returned
  /\ call < MaxCalls
  /\ call' = call + 1
  /\ input' \in SessionInputs
  /\ file' = FileOf(input')
  /\ filename' = "capture"
  /\ pc' = "parse_file"
  /\ endian' = "None" /\ format_type' = "None"
  /\ fpos' = 0 /\ pos' = 0 /\ packet_count' = 0 /\ reader' = 0
  /\ exc' = "none" /\ ran' = <<>> /\ failures' = <<>> /\ ioErrors' = 0
  /\ UNCHANGED <<DPKT_AVAILABLE, entry, packets, format_info>>

NextSession == Next \/ ParseAgain

SpecSession == InitSession /\ [][NextSession]_vars

\* ------------------------------------------------------------ vocabulary
\* The caller went through parse_file (directly or from load_pcap).
ViaParseFile == entry.method \in {"parse_file", "load_pcap"}

\* The only reader that has run is the classic reader.
OnlyClassicRan == Len(ran) = 1 /\ ran[1].stage = "classic"

\* The file is a classic capture whose global header is whole.
ClassicInput == input.family = "classic" /\ input.hdr = GlobalHeaderLen

\* ... and whose records are all whole, with nothing after them.
ValidClassicInput == ClassicInput /\ input.cut = 0 /\ input.stray = 0

StageRan(name) == \E i \in 1..Len(ran) : ran[i].stage = name

StageFailed(name) == \E i \in 1..Len(failures) : failures[i].stage = name

\* Two frame sequences with the same timestamps and the same payload bytes.
SameFrames(a, b) ==
  /\ Len(a) = Len(b)
  /\ \A i \in 1..Len(a) :
       a[i].timestamp = b[i].timestamp /\ SameBytes(a[i].payload, b[i].payload)

\* ---------------------------------------------------------------------- C1
\* C1: for every valid classic capture of N whole records, parse_file on a
\* fresh parser returns with exactly N frames, the i-th holding the bytes of
\* the i-th record, its length the record's captured length.
C1_ValidClassicYieldsRecords ==
  (ViaParseFile /\ ValidClassicInput /\ Returned /\ ioErrors = 0) =>
    /\ pc = "done"
    /\ Len(packets) = Len(input.recs)
    /\ \A i \in 1..Len(packets) :
         /\ i <= Len(input.recs)
         /\ PayloadLen(packets[i].payload) = Len(input.recs[i].data)
         /\ SameBytes(packets[i].payload, Payload(input.recs[i].data, 0))

\* ---------------------------------------------------------------------- C2
\* The last record of the generated capture, and the payload bytes left of it.
LastRecord == input.recs[Len(input.recs)]

PresentBytes == SubSeq(LastRecord.data, 1, Len(LastRecord.data) - input.cut)

\* The classic reader ran alone, in the byte order the file is written in,
\* over a capture whose last payload is short of input.cut > 0 bytes.
TruncatedPayloadCase ==
  /\ ClassicInput /\ input.cut > 0
  /\ OnlyClassicRan /\ endian = input.enc
  /\ Returned /\ ioErrors = 0

\* C2: when the last record declares L payload bytes and only L - k of them
\* (0 < k <= L) are in the file, the classic reader returns normally with as
\* many frames as records, the last one of length L: the bytes present, then
\* k zero bytes.
C2_TruncatedPayloadPadded ==
  TruncatedPayloadCase =>
    /\ pc = "done" /\ exc = "none"
    /\ Len(packets) = Len(input.recs)
    /\ LET p == packets[Len(packets)].payload
           L == Len(LastRecord.data) IN
       /\ PayloadLen(p) = L
       /\ \A i \in 1..(L - input.cut) : PayloadByte(p, i) = PresentBytes[i]
       /\ \A i \in (L - input.cut + 1)..L : PayloadByte(p, i) = 0

C2_Witness ==
  /\ TruncatedPayloadCase /\ ViaParseFile
  /\ Len(input.recs) = 2 /\ input.cut = 2
  /\ packets[Len(packets)].payload.pad = 2

\* ---------------------------------------------------------------------- C3
\* C3: a step of the record loop that finds fewer than 16 bytes where a
\* record header is expected (and no I/O error) ends the reader without an
\* exception and leaves the frame sequence as it was.
C3_ShortHeaderEndsCleanly ==
  [][(pc = "classic_loop" /\ Len(file) - fpos < RecordHeaderLen /\ ioErrors' = ioErrors) =>
       (pc' = "done" /\ exc' = "none" /\ failures' = failures /\ packets' = packets)]_vars

\* The reader has returned over a file with 1..15 stray bytes after two
\* records, both frames kept.
C3_Witness ==
  /\ ClassicInput /\ input.stray > 0 /\ Len(input.recs) = 2
  /\ OnlyClassicRan /\ pc = "done"
  /\ fpos + input.stray = Len(file)
  /\ Len(packets) = 2

\* ---------------------------------------------------------------------- C4
OtherOrder(enc) == IF enc = "little" THEN "big" ELSE "little"

\* The frames parse_file extracts from a classic capture when every read
\* succeeds: detect_format, then the record loop of _parse_classic_pcap.
ParsedFrames(bytes) ==
  ClassicFrames(bytes, GlobalHeaderLen, detect_format(bytes).endian, detect_format(bytes).format)

\* C4: the frames parse_file extracted from a classic capture are, timestamp
\* by timestamp and payload by payload, the frames it extracts from the same
\* capture written in the other byte order.
C4_ByteOrderSymmetry ==
  (ViaParseFile /\ ValidClassicInput /\ pc = "done" /\ ioErrors = 0) =>
    SameFrames(packets, ParsedFrames(FileOf([input EXCEPT !.enc = OtherOrder(input.enc)])))

\* ---------------------------------------------------------------------- C5
\* The pair the magic table assigns to a 4-byte prefix, read as the claim
\* reads it: the byte order is the one in which the prefix spells the magic.
TableSays(prefix) ==
  CASE U32("little", prefix) = <<161, 178, 195, 212>> -> [endian |-> "little", format |-> "classic"]
    [] U32("big", prefix) = <<161, 178, 195, 212>>    -> [endian |-> "big", format |-> "classic"]
    [] U32("little", prefix) = <<161, 178, 60, 77>>   -> [endian |-> "little", format |-> "nanosecond"]
    [] U32("big", prefix) = <<161, 178, 60, 77>>      -> [endian |-> "big", format |-> "nanosecond"]
    [] OTHER -> [endian |-> "any", format |-> "other"]

\* C5: once parse_file has sniffed a file whose prefix spells a classic or
\* nanosecond magic, the byte order and kind it holds are the table's for the
\* byte order the prefix is written in; a block-structured prefix gives the
\* block-structured kind.
C5_SniffMatchesEncoding ==
  (ViaParseFile /\ pc \notin {"load_pcap", "parse_file"} /\ ioErrors = 0
     /\ Len(file) >= MagicLen) =>
    LET prefix == SubSeq(file, 1, MagicLen) IN
    /\ TableSays(prefix).format # "other" =>
         endian = TableSays(prefix).endian /\ format_type = TableSays(prefix).format
    /\ prefix = <<10, 13, 13, 10>> => format_type = "pcapng"

\* ---------------------------------------------------------------------- C6
\* The caller's parse of an empty file that exists and reads without an I/O
\* error has returned or raised.
EmptyInputCase == ViaParseFile /\ file = <<>> /\ Returned /\ ioErrors = 0

\* C6 as claimed: parsing an empty input ends normally, the format
\* unrecognized and the frame sequence empty.
C6_EmptyInputEndsNormally ==
  EmptyInputCase => (pc = "done" /\ packets = <<>> /\ format_type = "None")

\* C6 as the code has it: an empty input is never parsed into frames and is
\* always refused: load_pcap raises before parsing; parse_file sniffs it as
\* unrecognized and then raises the unknown-format error without running a
\* reader when the library is missing, and otherwise runs the library reader
\* alone, whose error is what the caller gets.
C6_EmptyInputIsRefused ==
  EmptyInputCase =>
    /\ pc = "raised" /\ packets = <<>>
    /\ entry.method = "load_pcap" =>
         /\ exc = "ValueError: File is empty"
         /\ ran = <<>>
    /\ entry.method = "parse_file" =>
         /\ format_type = "None" /\ endian = "None"
         /\ ~DPKT_AVAILABLE => exc = "ValueError: Unknown file format" /\ ran = <<>>
         /\ DPKT_AVAILABLE =>
              /\ Len(ran) = 1 /\ ran[1].stage = "dpkt"
              /\ exc = "LibraryError"

C6_Witness ==
  /\ EmptyInputCase /\ entry.method = "parse_file" /\ ~DPKT_AVAILABLE
  /\ exc = "ValueError: Unknown file format"

\* ---------------------------------------------------------------------- C7
\* C7: from a buffer that holds one well-formed Enhanced Packet Block, with
\* whatever bytes before and after it, the scanning recovery returns with at
\* least one frame whose payload is the block's packet data.
C7_EmbeddedBlockRecovered ==
  (entry.method = "_parse_pcapng_fallback" /\ input.family = "blocks" /\ Returned
     /\ ioErrors = 0) =>
    /\ pc = "done"
    /\ \E i \in 1..Len(packets) : SameBytes(packets[i].payload, Payload(input.epb.data, 0))

\* ---------------------------------------------------------------------- C8
\* C8: when parse_file returns after a reader failed and a fallback reader
\* ran, every frame of the sequence was built by that fallback reader.
C8_FallbackReplacesFrames ==
  (ViaParseFile /\ pc = "done" /\ Len(ran) >= 2) =>
    \A i \in 1..Len(packets) : packets[i].by = ran[Len(ran)].stage

\* ---------------------------------------------------------------------- C9
\* C9: parse_file fails on an input sniffed as block-structured only after
\* the scanning recovery has run on it and found no frame.
C9_RecoveryBeforeFailure ==
  (ViaParseFile /\ format_type = "pcapng" /\ pc = "raised") =>
    /\ StageRan("fallback")
    /\ \A i \in 1..Len(packets) : packets[i].by # "fallback"

\* --------------------------------------------------------------------- C10
\* The first failure of the classic reader, if any.
ClassicFailure == CHOOSE f \in {failures[i] : i \in 1..Len(failures)} : f.stage = "classic"

\* C10: when parse_file has returned or raised (self.filename is set only
\* once it is entered) on an input not sniffed as block-structured: a classic or nanosecond sniff ran the classic reader
\* first, with the sniffed byte order and kind, and the library reader ran
\* exactly when the classic reader failed and the library is available, the
\* classic reader's own exception reaching the caller when it is not; any
\* other sniff ran the library reader alone when it is available and ran no
\* reader and raised the unknown-format error when it is not.
C10_DispatchNonBlock ==
  (ViaParseFile /\ Returned /\ filename # "None") =>
    /\ format_type \in {"classic", "nanosecond"} =>
         /\ Len(ran) >= 1 /\ ran[1] = Stage("classic", endian, format_type)
         /\ ioErrors = 0 =>
              /\ endian = detect_format(file).endian
              /\ format_type = detect_format(file).format
         /\ StageRan("dpkt") = (StageFailed("classic") /\ DPKT_AVAILABLE)
         /\ StageRan("dpkt") => Len(ran) = 2 /\ ran[2].stage = "dpkt"
         /\ (StageFailed("classic") /\ ~DPKT_AVAILABLE) =>
              pc = "raised" /\ exc = ClassicFailure.exc
         /\ ~StageFailed("classic") => pc = "done"
    /\ format_type \in {"None", "wireless_cap"} =>
         /\ DPKT_AVAILABLE => Len(ran) = 1 /\ ran[1].stage = "dpkt"
         /\ ~DPKT_AVAILABLE =>
              ran = <<>> /\ pc = "raised" /\ exc = "ValueError: Unknown file format"

\* A truncated global header without the library: the classic reader's
\* struct.error is what the caller gets.
C10_Witness ==
  /\ ViaParseFile /\ pc = "raised" /\ ~DPKT_AVAILABLE
  /\ format_type = "nanosecond" /\ exc = "struct.error"
  /\ OnlyClassicRan /\ StageFailed("classic")


\* --------------------------------------------------------------------- C11
\* C11: once the classic reader has failed with a hard error (reading the
\* global header or in the record loop), whether the failure reached the
\* caller or a fallback reader took over, no frame the classic reader
\* appended is left in the parser's frame sequence.
C11_FailedClassicLeavesNoFrames ==
  (StageFailed("classic") /\ Returned) =>
    \A i \in 1..Len(packets) : packets[i].by # "classic"

\* --------------------------------------------------------------------- C12
\* What a parse session exposes after a classic parse: self.packets and
\* self.format_info (the other attributes __init__ sets are never written by
\* the readers).  Two sessions are the same to an observer when their frames
\* carry the same bytes and timestamps and their format info is equal.
SameSession(frames_a, info_a, frames_b, info_b) ==
  SameFrames(frames_a, frames_b) /\ info_a = info_b

\* The records of a frame sequence the classic reader zero-padded.
PaddedCount(frames) == Cardinality({i \in 1..Len(frames) : frames[i].payload.pad > 0})

\* The classic captures with a whole global header.
WholeHeaderInputs == {in \in Inputs : in.family = "classic" /\ in.hdr = GlobalHeaderLen}

\* C12: the session exposes the number of zero-padded records (0 for a
\* capture with no truncated payload, 1 more for every padded record): what
\* a session exposes after a classic parse determines that number, so any
\* capture whose parse leaves the same session padded as many records.
C12_RecoveredCountExposed ==
  (ViaParseFile /\ ClassicInput /\ OnlyClassicRan /\ pc = "done" /\ ioErrors = 0) =>
    \A other \in WholeHeaderInputs :
      LET sniff == detect_format(FileOf(other))
          frames == ClassicFrames(FileOf(other), GlobalHeaderLen, sniff.endian, sniff.format) IN
      SameSession(packets, format_info,
                  frames, ClassicFormatInfo(FileOf(other), sniff.endian, sniff.format))
        => PaddedCount(frames) = PaddedCount(packets)

\* --------------------------------------------------------------------- C13
\* C13: when an I/O error was raised while parse_file (sniffing, a classic
\* read, a block read, the scanning recovery) opened or read the file, the
\* caller gets that I/O error: parse_file does not return normally and does
\* not raise a structural error in its place.
C13_IoErrorSurfaces ==
  (ViaParseFile /\ filename # "None" /\ Returned /\ ioErrors > 0) =>
    (pc = "raised" /\ exc = "OSError")

\* --------------------------------------------------------------------- C14
\* C14: when parse_file has run every reader and fallback applicable to the
\* input and the frame sequence is empty, it has raised: it never returns
\* normally with no frame.
C14_NoFramesIsFailure ==
  (ViaParseFile /\ filename # "None" /\ Returned /\ packets = <<>>) => pc = "raised"


\* --------------------------------------------------------------------- C15
\* C15: whatever calls came before, the frames and the format info a call of
\* parse_file leaves are those of its own file alone: after a classic read
\* with no I/O error, the frames of that file and the format info of its
\* global header; after the library reader ran alone, a format info with
\* nothing but that reader's own key.
C15_SessionIsolation ==
  (call > 1 /\ pc = "done" /\ ioErrors = 0) =>
    /\ OnlyClassicRan =>
         /\ SameFrames(packets, ParsedFrames(file))
         /\ format_info = ClassicFormatInfo(file, endian, format_type)
    /\ (Len(ran) = 1 /\ ran[1].stage = "dpkt") => DOMAIN format_info = {"parsed_with"}


\* --------------------------------------------------------------------- C16
\* The prefix spells a magic number of the table in one of the byte orders.
InTable(prefix) ==
  \E i \in 1..Len(PCAP_MAGIC_NUMBERS) :
    PCAP_MAGIC_NUMBERS[i].magic \in {prefix, Reverse(prefix)}

\* parse_file has sniffed the file, with no I/O error.
SniffedCase == ViaParseFile /\ pc # "parse_file" /\ filename # "None" /\ ioErrors = 0

\* C16: what detect_format answers outside the magic table.  A file of fewer
\* than 4 bytes is unrecognized, and no exception comes out of the sniffing
\* (the only one parse_file can then raise is its own unknown-format error);
\* a 4-byte prefix in no table entry under either byte order is the wireless
\* kind with indeterminate byte order when it starts with FF FF and is
\* unrecognized otherwise; a prefix in the table is never the wireless kind.
C16_SniffOutsideTable ==
  SniffedCase =>
    /\ Len(file) < MagicLen =>
         /\ endian = "None" /\ format_type = "None"
         /\ exc \in {"none", "ValueError: Unknown file format"}
    /\ (Len(file) >= MagicLen /\ ~InTable(file) /\ SubSeq(file, 1, 2) = <<255, 255>>) =>
         endian = "unknown" /\ format_type = "wireless_cap"
    /\ (Len(file) >= MagicLen /\ ~InTable(file) /\ SubSeq(file, 1, 2) # <<255, 255>>) =>
         endian = "None" /\ format_type = "None"
    /\ (Len(file) >= MagicLen /\ InTable(file)) =>
         format_type \in {"classic", "nanosecond", "pcapng"}

\* The prefix FF FF 0A 0D has been sniffed as the wireless kind.
C16_Witness ==
  /\ SniffedCase /\ file = <<255, 255, 10, 13>>
  /\ format_type = "wireless_cap" /\ endian = "unknown"


\* --------------------------------------------------------------------- C17
\* The 32-bit little-endian field k (0-based) of the 16 bytes at the scan
\* offset, as a number, and the first of them as it lies in the buffer.
FieldAtScan(k) == Val(Reverse(SubSeq(file, pos + 4 * k + 1, pos + 4 * k + 4)))

TypeBytesAtScan == SubSeq(file, pos + 1, pos + 4)

\* The last frame of a sequence.
Last(frames) == frames[Len(frames)]

\* C17: a step of the scan that adds to the frame sequence adds one frame,
\* at an offset where 16 bytes are left, from a block of type 6 whose
\* declared length is at least 32 and at most the bytes left from its
\* offset; the payload is the slice of the buffer that starts 16 bytes into
\* the block, is as long as the length field the scan read (the word at
\* bytes 12..15) and ends inside the buffer.  A packet block whose payload so
\* declared would end past the buffer adds no frame, and the scan goes on
\* from the next block.
C17_ExtractionIsBoundsChecked ==
  [][pc = "fallback_scan" =>
       /\ packets' # packets =>
            /\ pos + ScanHeaderLen <= Len(file)
            /\ TypeBytesAtScan = <<EpbType, 0, 0, 0>>
            /\ FieldAtScan(1) >= EpbMinLen /\ FieldAtScan(1) <= Len(file) - pos
            /\ Len(packets') = Len(packets) + 1
            /\ SubSeq(packets', 1, Len(packets)) = packets
            /\ pos + 16 + FieldAtScan(3) <= Len(file)
            /\ Last(packets').payload = Payload(SubSeq(file, pos + 17, pos + 16 + FieldAtScan(3)), 0)
       /\ ( /\ pos + ScanHeaderLen <= Len(file)
            /\ TypeBytesAtScan = <<EpbType, 0, 0, 0>>
            /\ FieldAtScan(1) >= EpbMinLen /\ FieldAtScan(1) <= Len(file) - pos
            /\ pos + 16 + FieldAtScan(3) > Len(file) ) =>
            (packets' = packets /\ pc' = "fallback_scan" /\ pos' > pos)]_vars

\* The scan, run after the library reader failed on a file that starts with
\* a section header, has returned one frame of one byte.
C17_Witness ==
  /\ ViaParseFile /\ StageFailed("pcapng") /\ pc = "done"
  /\ input.family = "blocks" /\ input.pre = "shb" /\ input.epb.ts_high = 1
  /\ Len(packets) >= 1 /\ Last(packets).by = "fallback"
  /\ PayloadLen(Last(packets).payload) = 1

\* --------------------------------------------------------------------- C18
\* n rounded up to the next multiple of 4.
RoundUp4(n) == ((n + 3) \div 4) * 4

\* C18: every iteration of the scan that does not stop it (a frame
\* extracted, an extraction skipped, another block type) moves the offset by
\* the block's declared length rounded up to a multiple of 4, and every
\* offset the scan reads a block header at is a multiple of 4.
C18_ScanAdvanceAligned ==
  /\ [](pc = "fallback_scan" => pos % 4 = 0)
  /\ [][(pc = "fallback_scan" /\ pc' = "fallback_scan") =>
          pos' = pos + RoundUp4(FieldAtScan(1))]_vars

\* The scan has passed a block of another type whose declared length, 18, is
\* no multiple of 4, and stands at offset 20.
C18_Witness ==
  /\ pc = "fallback_scan" /\ input.family = "blocks" /\ input.pre = "odd"
  /\ pos = 20

\* --------------------------------------------------------------------- C19
\* C19: the scan loop terminates: an iteration that does not stop the scan
\* starts inside the buffer and ends at a strictly greater offset, and the
\* scan does not stay in the loop for ever.
C19_ScanTerminates ==
  /\ [][(pc = "fallback_scan" /\ pc' = "fallback_scan") =>
          (pos < Len(file) /\ pos' > pos)]_vars
  /\ (pc = "fallback_scan") ~> (pc # "fallback_scan")

\* The scan has gone through two blocks and left the loop at the end of the
\* buffer.
C19_Witness ==
  /\ entry.method = "_parse_pcapng_fallback" /\ input.family = "blocks"
  /\ input.pre = "shb" /\ input.post = <<>>
  /\ pc = "done" /\ pos = Len(file) /\ Len(packets) = 1


\* --------------------------------------------------------------------- C20
\* The positions of the zero-padded frames of a sequence.
PaddedAt(frames) == {i \in 1..Len(frames) : frames[i].payload.pad > 0}

\* C20: while the classic reader is the only reader that has run, at most
\* one frame is zero-padded and it is the last one; and when the record loop
\* is about to read a record header after it padded a frame, fewer than 16
\* bytes (none) are left, so that read ends the loop.
C20_PaddedFrameIsLast ==
  OnlyClassicRan =>
    /\ Cardinality(PaddedAt(packets)) <= 1
    /\ PaddedAt(packets) \subseteq {Len(packets)}
    /\ (pc = "classic_loop" /\ PaddedAt(packets) # {}) =>
         (fpos = Len(file) /\ Len(file) - fpos < RecordHeaderLen)

\* The reader has returned two frames from a capture whose second payload
\* is one byte short: the first as it is, the second padded by one byte.
C20_Witness ==
  /\ OnlyClassicRan /\ pc = "done" /\ ClassicInput /\ input.cut = 1
  /\ Len(packets) = 2 /\ PaddedAt(packets) = {2}
  /\ packets[2].payload.pad = 1


\* --------------------------------------------------------------------- C21
\* The keys of self.format_info each reader writes.
KeysWrittenBy(stage) ==
  CASE stage = "classic" -> {"magic", "version", "snaplen", "network", "format", "endian"}
    [] stage = "pcapng"  -> {"format", "interfaces"}
    [] stage = "dpkt"    -> {"parsed_with"}
    [] OTHER             -> {}

\* C21: when parse_file has returned after a reader failed and a fallback
\* reader ran and succeeded, the format info holds no field the failed
\* reader wrote; and when no fallback ran, the format info is what the one
\* reader that ran wrote, or was never written.
C21_FallbackOverwritesFormatInfo ==
  (ViaParseFile /\ call = 1 /\ Returned /\ filename # "None") =>
    /\ (pc = "done" /\ Len(ran) >= 2) =>
         DOMAIN format_info \cap KeysWrittenBy(ran[1].stage) = {}
    /\ Len(ran) = 1 =>
         (format_info = EmptyDict \/ DOMAIN format_info = KeysWrittenBy(ran[1].stage))

\* --------------------------------------------------------------------- C22
\* C22: every frame _parse_pcapng built from an item of the library reader
\* has the payload and the timestamp _parse_with_dpkt builds from that item.
C22_LibraryPathsAgree ==
  \A i \in 1..Len(packets) :
    packets[i].by = "pcapng" =>
      \E item \in LibItems :
        /\ SameBytes(packets[i].payload, DpktFrame(item).payload)
        /\ packets[i].timestamp = DpktFrame(item).timestamp

====
